---------------------------- MODULE Spec2Model ----------------------------
(***************************************************************************)
(* The chat session controller of src/pages/Home.tsx (component Home).     *)
(*                                                                         *)
(* State: the four useState cells of Home (messages, input, loading,       *)
(* error), the values the last committed render captured in its closures   *)
(* and in the DOM (rendered), the outbound calls to callAIAgent, the       *)
(* millisecond clock read by Date.now().                                   *)
(*                                                                         *)
(* Texts are sequences of chunks (strings).  A text typed into the input   *)
(* has one character per chunk, so that String.prototype.trim can be       *)
(* computed character by character; a literal of the program is a single   *)
(* chunk.  An optional value (undefined / null in the source) is the empty *)
(* sequence, a present value v is <<v>>.                                   *)
(*                                                                         *)
(* React scheduling: a state update made inside a DOM event handler        *)
(* (click, keypress, change) is committed before the next event is         *)
(* delivered, so those actions end with the re-render.  The updates made   *)
(* by the continuation of handleSend after the await are batched and       *)
(* committed by a later render (action Render); until then the handlers    *)
(* of the previous render, with their captured values, stay installed.     *)
(***************************************************************************)
EXTENDS Integers, Sequences, FiniteSets, TLC

\* ---------------------------------------------------------------- bounds
MaxSends == 2
MaxClock == 1

\* ------------------------------------------------------------- constants
AGENT_ID == "69819b9412326156554941e1"

STARTER_QUESTIONS ==
  << <<"How can I track my order?">>,
     <<"What are your business hours?">>,
     <<"Tell me about your services">>,
     <<"How do I reset my password?">> >>

WelcomeText ==
  <<"Hello! I'm your customer support assistant. How can I help you today?">>

ApologyText ==
  <<"I'm sorry, I encountered an error. Please try again or contact support if the issue persists.">>

TroubleConnectingText ==
  <<"I'm having trouble connecting right now. Please check your internet connection and try again.">>

NetworkErrorText == "Network error occurred"

FailedText == "Failed to get response"

\* confidence is a fraction 0.0 .. 1.0, kept here in thousandths: 1.0 is 1000
FullConfidence == 1000

\* ------------------------------------------------------- optional values
None == << >>

Some(v) == <<v>>

\* JavaScript truthiness of an optional string: undefined and '' are falsy
Truthy(o) == o # None /\ o[1] # ""

\* a || b || c on optional strings, c a plain string
OrElse(a, b, c) == IF Truthy(a) THEN a[1] ELSE IF Truthy(b) THEN b[1] ELSE c

\* ------------------------------------------------------------------ trim
IsSpace(c) == c = " "

RECURSIVE TrimStart(_)
TrimStart(s) ==
  IF s = << >> THEN s
  ELSE IF IsSpace(Head(s)) THEN TrimStart(Tail(s)) ELSE s

RECURSIVE TrimEnd(_)
TrimEnd(s) ==
  IF s = << >> THEN s
  ELSE IF IsSpace(s[Len(s)]) THEN TrimEnd(SubSeq(s, 1, Len(s) - 1)) ELSE s

Trim(s) == TrimEnd(TrimStart(s))

\* ---------------------------------------------------------------- inputs
\* values the user can leave in the input field (each within maxLength)
InputValues ==
  { << >>, <<" ", " ">>, <<" ", "a", " ", "b", " ">> }

Keys == {"Enter", "a"}

\* result payloads of a success envelope
Payloads ==
  { [answer |-> <<"You can track it under Orders.">>, sources |-> << >>,
     confidence |-> 920, follow_up_questions |-> << <<"Q1">> >>,
     requires_escalation |-> FALSE],
    [answer |-> <<"Please contact a human agent.">>, sources |-> <<"kb-7">>,
     confidence |-> 125, follow_up_questions |-> << >>,
     requires_escalation |-> TRUE] }

Responses ==
  [status : {"success", "error"},
   result : {None} \cup {Some(p) : p \in Payloads},
   message : {None, Some(""), Some("rate limited")}]

\* what the awaited callAIAgent can settle with: a resolved envelope
\* {success, response?, error?} or a rejection
Envelopes ==
  [settled : {"resolved"},
   success : BOOLEAN,
   response : {None} \cup {Some(r) : r \in Responses},
   error : {None, Some("timeout")}]
  \cup
  {[settled |-> "rejected", success |-> FALSE, response |-> None, error |-> None]}

\* ----------------------------------------------------------------- state
VARIABLES
  messages,   \* useState<Message[]>
  input,      \* useState('')
  loading,    \* useState(false)
  error,      \* useState<string | null>
  rendered,   \* the state captured by the last committed render
  mounted,    \* the mount effect has run
  calls,      \* every callAIAgent(message, agent_id) issued so far
  inflight,   \* calls issued and not yet settled
  now         \* Date.now(), in ms since the page was loaded

vars ==
  <<messages, input, loading, error, rendered, mounted, calls, inflight, now>>

View(m, i, l, e) == [messages |-> m, input |-> i, loading |-> l, error |-> e]

\* number.toString() of a clock value
IdOf(n) == ToString(n)

\* -------------------------------------------------------------- messages
\* the welcome message built like an error message: escalation forced true
welcomeMessage_Escalated ==
  [id |-> "welcome", role |-> "agent", content |-> WelcomeText,
   timestamp |-> now, confidence |-> Some(FullConfidence),
   sources |-> None, followUpQuestions |-> Some(STARTER_QUESTIONS),
   requiresEscalation |-> Some(TRUE)]

welcomeMessage ==
  [id |-> "welcome", role |-> "agent", content |-> WelcomeText,
   timestamp |-> now, confidence |-> Some(FullConfidence),
   sources |-> None, followUpQuestions |-> Some(STARTER_QUESTIONS),
   requiresEscalation |-> Some(FALSE)]

userMessage(textToSend) ==
  [id |-> IdOf(now), role |-> "user", content |-> textToSend,
   timestamp |-> now, confidence |-> None, sources |-> None,
   followUpQuestions |-> None, requiresEscalation |-> None]

agentMessage(result) ==
  [id |-> IdOf(now + 1), role |-> "agent", content |-> result.answer,
   timestamp |-> now, confidence |-> Some(result.confidence),
   sources |-> Some(result.sources),
   followUpQuestions |-> Some(result.follow_up_questions),
   requiresEscalation |-> Some(result.requires_escalation)]

\* the error message without the escalation flag
errorMessage_NoEscalation(text) ==
  [id |-> IdOf(now + 1), role |-> "agent", content |-> text,
   timestamp |-> now, confidence |-> None, sources |-> None,
   followUpQuestions |-> None, requiresEscalation |-> None]

errorMessage(text) ==
  [id |-> IdOf(now + 1), role |-> "agent", content |-> text,
   timestamp |-> now, confidence |-> None, sources |-> None,
   followUpQuestions |-> None, requiresEscalation |-> Some(TRUE)]

\* ------------------------------------------------------------------ init
Init ==
  /\ messages = << >>
  /\ input = << >>
  /\ loading = FALSE
  /\ error = None
  /\ rendered = View(<< >>, << >>, FALSE, None)
  /\ mounted = FALSE
  /\ calls = << >>
  /\ inflight = 0
  /\ now = 0

\* the effect without its empty dependency list: it runs after any commit
MountEffect_NoDeps ==
  /\ mounted' = TRUE
  /\ messages' = <<welcomeMessage>>
  /\ rendered' = View(messages', input, loading, error)
  /\ UNCHANGED <<input, loading, error, calls, inflight, now>>

\* useEffect(() => setMessages([welcomeMessage]), []) after the first commit
MountEffect ==
  /\ ~mounted
  /\ mounted' = TRUE
  /\ messages' = <<welcomeMessage>>
  /\ rendered' = View(messages', input, loading, error)
  /\ UNCHANGED <<input, loading, error, calls, inflight, now>>

Tick ==
  /\ now < MaxClock
  /\ now' = now + 1
  /\ UNCHANGED <<messages, input, loading, error, rendered, mounted, calls,
                 inflight>>

\* ------------------------------------------------------------ handleSend
\* const textToSend = messageText || input
TextToSend_NoTrim(messageText) ==
  IF messageText # None /\ messageText[1] # << >>
  THEN messageText[1]
  ELSE rendered.input

\* const textToSend = messageText || input.trim()      (input of the closure)
TextToSend(messageText) ==
  IF messageText # None /\ messageText[1] # << >>
  THEN messageText[1]
  ELSE Trim(rendered.input)

\* if (!textToSend || loading) return                (loading of the closure)
Refused(textToSend) == textToSend = << >> \/ rendered.loading

\* handleSend without setError(null)
handleSend_KeepError(messageText) ==
  LET textToSend == TextToSend(messageText) IN
  IF Refused(textToSend)
  THEN UNCHANGED vars
  ELSE /\ Len(calls) < MaxSends
       /\ input' = << >>
       /\ error' = error
       /\ messages' = Append(messages, userMessage(textToSend))
       /\ loading' = TRUE
       /\ calls' = Append(calls, [message |-> textToSend, agent_id |-> AGENT_ID])
       /\ inflight' = inflight + 1
       /\ rendered' = View(messages', input', loading', error')
       /\ UNCHANGED <<mounted, now>>

\* handleSend without setLoading(true)
handleSend_NoSetLoading(messageText) ==
  LET textToSend == TextToSend(messageText) IN
  IF Refused(textToSend)
  THEN UNCHANGED vars
  ELSE /\ Len(calls) < MaxSends
       /\ input' = << >>
       /\ error' = None
       /\ messages' = Append(messages, userMessage(textToSend))
       /\ loading' = loading
       /\ calls' = Append(calls, [message |-> textToSend, agent_id |-> AGENT_ID])
       /\ inflight' = inflight + 1
       /\ rendered' = View(messages', input', loading', error')
       /\ UNCHANGED <<mounted, now>>

\* The synchronous part of handleSend, up to the await, and the commit of its
\* four state updates.
handleSend(messageText) ==
  LET textToSend == TextToSend(messageText) IN
  IF Refused(textToSend)
  THEN UNCHANGED vars
  ELSE /\ Len(calls) < MaxSends
       /\ input' = << >>
       /\ error' = None
       /\ messages' = Append(messages, userMessage(textToSend))
       /\ loading' = TRUE
       /\ calls' = Append(calls, [message |-> textToSend, agent_id |-> AGENT_ID])
       /\ inflight' = inflight + 1
       /\ rendered' = View(messages', input', loading', error')
       /\ UNCHANGED <<mounted, now>>

\* Which block of the try statement handles the awaited result:
\* "success" (lines 199-213), "error" (214-226) or "catch" (227-237).  A
\* property read on undefined throws a TypeError inside the try.
SettlePath(result) ==
  IF result.settled = "rejected" THEN "catch"
  ELSE IF result.success
  THEN IF result.response = None THEN "catch"
       ELSE IF result.response[1].status = "success"
       THEN IF result.response[1].result = None THEN "catch" ELSE "success"
       ELSE "error"
  ELSE IF result.response = None THEN "catch" ELSE "error"

\* result.error || result.response.message || 'Failed to get response'
ErrorText_ErrorFirst(result) ==
  OrElse(result.error, result.response[1].message, FailedText)

\* result.response.message || result.error || 'Failed to get response'
ErrorText(result) ==
  OrElse(result.response[1].message, result.error, FailedText)

\* The message appended by the block that handles the result
SettledMessage(result) ==
  CASE SettlePath(result) = "success" ->
         agentMessage(result.response[1].result[1])
    [] SettlePath(result) = "error" -> errorMessage(ApologyText)
    [] SettlePath(result) = "catch" -> errorMessage(TroubleConnectingText)

\* the catch block reporting the fallback text of the else block
SettledError_CatchFallback(result) ==
  CASE SettlePath(result) = "success" -> error
    [] SettlePath(result) = "error" -> Some(ErrorText(result))
    [] SettlePath(result) = "catch" -> Some(FailedText)

\* The value of error after the block that handles the result: only the
\* else block and the catch block call setError
SettledError(result) ==
  CASE SettlePath(result) = "success" -> error
    [] SettlePath(result) = "error" -> Some(ErrorText(result))
    [] SettlePath(result) = "catch" -> Some(NetworkErrorText)

\* the continuation with a catch block that only records the error
Settle_SilentCatch(result) ==
  /\ inflight > 0
  /\ inflight' = inflight - 1
  /\ messages' = IF SettlePath(result) = "catch" THEN messages
                 ELSE Append(messages, SettledMessage(result))
  /\ error' = SettledError(result)
  /\ loading' = FALSE
  /\ UNCHANGED <<input, rendered, mounted, calls, now>>

\* the continuation with setLoading(false) as the last statement of the try
\* block instead of a finally block
Settle_NoFinally(result) ==
  /\ inflight > 0
  /\ inflight' = inflight - 1
  /\ messages' = Append(messages, SettledMessage(result))
  /\ error' = SettledError(result)
  /\ loading' = IF SettlePath(result) = "catch" THEN loading ELSE FALSE
  /\ UNCHANGED <<input, rendered, mounted, calls, now>>

\* The continuation of handleSend after the await: try / catch / finally.
\* Its updates are batched; Render commits them.
Settle(result) ==
  /\ inflight > 0
  /\ inflight' = inflight - 1
  /\ messages' = Append(messages, SettledMessage(result))
  /\ error' = SettledError(result)
  /\ loading' = FALSE
  /\ UNCHANGED <<input, rendered, mounted, calls, now>>

\* React commits the batched updates of the continuation
Render ==
  /\ rendered # View(messages, input, loading, error)
  /\ rendered' = View(messages, input, loading, error)
  /\ UNCHANGED <<messages, input, loading, error, mounted, calls, inflight,
                 now>>

\* ------------------------------------------------------------- the page
\* <Input disabled={loading} .../>
InputDisabled == rendered.loading

\* <Button disabled={!input.trim() || loading} .../>
SendDisabled == Trim(rendered.input) = << >> \/ rendered.loading

\* {!loading && ( ...starter chips... )}
ChipsShown_NotLoading == ~rendered.loading

\* {messages.length === 1 && !loading && ( ...starter chips... )}
ChipsShown == Len(rendered.messages) = 1 /\ ~rendered.loading

\* onChange={(e) => setInput(e.target.value)}: the user edits the field
onChange(value) ==
  /\ mounted
  /\ ~InputDisabled
  /\ input' = value
  /\ rendered' = View(messages, input', loading, error)
  /\ UNCHANGED <<messages, loading, error, mounted, calls, inflight,
                 now>>

\* onClick={() => handleSend()} of the send button
SendClick ==
  /\ mounted
  /\ ~SendDisabled
  /\ handleSend(None)

\* A keypress event delivered to the input.  The disabled attribute
\* suppresses clicks and edits; the handler itself does not test it.
handleKeyPress(key, shiftKey) ==
  /\ mounted
  /\ IF key = "Enter" /\ ~shiftKey THEN handleSend(None) ELSE UNCHANGED vars

\* onClick={() => handleQuickReply(question)} of a starter chip
handleQuickReply(question) == handleSend(Some(question))

ChipClick(i) ==
  /\ mounted
  /\ ChipsShown
  /\ handleQuickReply(STARTER_QUESTIONS[i])

\* ---------------------------------------------------------- ChatMessage
\* Math.floor(message.confidence * 100)
RoundPercent_Floor(confidence) == confidence \div 10

\* Math.round(message.confidence * 100), the confidence in thousandths:
\* the nearest integer, a half rounded up
RoundPercent(confidence) == (confidence + 5) \div 10

\* What ChatMessage shows for a message: the bubble text, the confidence
\* badge, the escalation badge and the follow-up chips (agent messages only)
ChatMessage(message) ==
  LET isAgent == message.role = "agent" IN
  [content |-> message.content,
   confidenceBadge |->
     IF isAgent /\ message.confidence # None
     THEN Some(<<ToString(RoundPercent(message.confidence[1])), "% confident">>)
     ELSE None,
   escalationBadge |-> isAgent /\ message.requiresEscalation = Some(TRUE),
   chips |->
     IF isAgent /\ message.followUpQuestions # None
          /\ Len(message.followUpQuestions[1]) > 0
     THEN message.followUpQuestions[1]
     ELSE << >>]

\* A click on follow-up chip j under rendered message i: the chip is a
\* <Badge> with no onClick, so no handler runs
FollowUpClick(i, j) ==
  /\ mounted
  /\ i \in DOMAIN rendered.messages
  /\ j \in DOMAIN ChatMessage(rendered.messages[i]).chips
  /\ UNCHANGED vars

\* a click on any of the follow-up chips on the page
AnyFollowUpClick ==
  \E i \in DOMAIN rendered.messages :
    \E j \in DOMAIN ChatMessage(rendered.messages[i]).chips :
      FollowUpClick(i, j)

Next ==
  \/ MountEffect
  \/ Tick
  \/ \E value \in InputValues : onChange(value)
  \/ SendClick
  \/ \E key \in Keys, shiftKey \in BOOLEAN : handleKeyPress(key, shiftKey)
  \/ \E i \in DOMAIN STARTER_QUESTIONS : ChipClick(i)
  \/ \E result \in Envelopes : Settle(result)
  \/ Render
  \/ AnyFollowUpClick

Spec == Init /\ [][Next]_vars

\* The handler contract: handleQuickReply(question) is also called with
\* questions that are not starter questions.
Questions == { <<" ", " ">>, <<"o", "k">> }

quickReply(question) ==
  /\ mounted
  /\ handleQuickReply(question)

NextCall ==
  \/ Next
  \/ \E question \in Questions : quickReply(question)

SpecCall == Init /\ [][NextCall]_vars
\* ------------------------------------------------------------ properties
Last(seq) == seq[Len(seq)]

CountRole(r) == Cardinality({i \in DOMAIN messages : messages[i].role = r})

\* C1: at most one outbound call is in flight in every reachable state,
\* whatever the order of send triggers, renders and settlements.
C1_SingleCallInFlight == inflight \in {0, 1}

\* a second call is in flight after the first one has settled
C1_Witness == inflight = 1 /\ Len(calls) = 2 /\ rendered.loading

\* C2: every accepted send has appended exactly one user message, and every
\* settled call exactly one agent message, whichever block handled the result:
\* the user messages are as many as the calls issued, the agent messages as
\* many as the calls settled plus the welcome message.
C2_OneUserOneAgentPerSend ==
  mounted =>
    /\ CountRole("user") = Len(calls)
    /\ CountRole("agent") = 1 + Len(calls) - inflight

\* two sends have settled, the second one in the catch block
C2_Witness ==
  /\ Len(calls) = 2
  /\ inflight = 0
  /\ Last(messages).content =
       <<"I'm having trouble connecting right now. Please check your internet connection and try again.">>

C4_BusyIffInFlight == loading <=> inflight > 0

\* a call has ended in the catch block and loading is false again
C4_Witness ==
  /\ ~loading
  /\ inflight = 0
  /\ Len(calls) > 0
  /\ error = <<"Network error occurred">>
IsAppend(old, new) ==
  Len(new) = Len(old) + 1 /\ SubSeq(new, 1, Len(old)) = old

\* C5: when the call resolves with an error envelope (response.status =
\* "error") carrying a non-empty message m, error becomes m and one agent
\* message with the fixed apology text, escalation true and no confidence is
\* appended.
C5_ErrorEnvelopeMessage ==
  [][\A result \in Envelopes :
       ( /\ inflight' < inflight
         /\ result.settled = "resolved"
         /\ result.response # None
         /\ result.response[1].status = "error"
         /\ result.response[1].message \notin {None, <<"">>}
         /\ Settle(result) )
       => /\ error' = result.response[1].message
          /\ IsAppend(messages, messages')
          /\ Last(messages').role = "agent"
          /\ Last(messages').content =
               <<"I'm sorry, I encountered an error. Please try again or contact support if the issue persists.">>
          /\ Last(messages').requiresEscalation = <<TRUE>>
          /\ Last(messages').confidence = << >>
    ]_vars

\* the scenario of the specification: "rate limited" is the visible error
C5_Witness ==
  /\ error = <<"rate limited">>
  /\ inflight = 0
  /\ Last(messages).requiresEscalation = <<TRUE>>
  /\ Last(messages).content = ApologyText

\* C6: when the call rejects, the catch block runs and the handler completes:
\* error becomes 'Network error occurred', one agent message with the
\* "trouble connecting" text and escalation true is appended, loading is
\* cleared.
C6_RejectedCall ==
  [][\A result \in Envelopes :
       (inflight' < inflight /\ result.settled = "rejected" /\ Settle(result))
       => /\ error' = <<"Network error occurred">>
          /\ IsAppend(messages, messages')
          /\ Last(messages').role = "agent"
          /\ Last(messages').content =
               <<"I'm having trouble connecting right now. Please check your internet connection and try again.">>
          /\ Last(messages').requiresEscalation = <<TRUE>>
          /\ ~loading'
    ]_vars

C6_Witness ==
  /\ error = <<"Network error occurred">>
  /\ ~loading
  /\ Last(messages).content = TroubleConnectingText
  /\ Last(messages).requiresEscalation = <<TRUE>>

\* C7: when the call resolves with {success: false, error}, without a
\* response or with a response that has no message, error becomes the
\* envelope's error string ('Failed to get response' when there is none) and
\* an agent message with escalation true is appended.
C7_TransportFailureEnvelope ==
  [][\A result \in Envelopes :
       ( /\ inflight' < inflight
         /\ result.settled = "resolved"
         /\ ~result.success
         /\ (result.response = None
               \/ result.response[1].message \in {None, <<"">>})
         /\ Settle(result) )
       => /\ error' = IF result.error \notin {None, <<"">>}
                      THEN result.error
                      ELSE <<"Failed to get response">>
          /\ IsAppend(messages, messages')
          /\ Last(messages').role = "agent"
          /\ Last(messages').requiresEscalation = <<TRUE>>
    ]_vars

\* C8: a settlement, on any path, ends the cycle in the idle state, and in an
\* idle state whose render is committed a non-empty pending input is accepted
\* by the send button (while the model's cap on sends is not reached).
C8_CycleReturnsToIdle ==
  /\ [][inflight' < inflight
          => (~loading' /\ inflight' = 0 /\ IsAppend(messages, messages'))]_vars
  /\ []( ( /\ mounted
           /\ inflight = 0
           /\ rendered = View(messages, input, loading, error)
           /\ Trim(input) # << >>
           /\ Len(calls) < MaxSends )
         => ENABLED (SendClick /\ Len(calls') = Len(calls) + 1) )

\* a second send was accepted after a first cycle that ended in a failure
C8_Witness ==
  /\ Len(messages) >= 4
  /\ messages[3].role = "agent"
  /\ messages[3].requiresEscalation = <<TRUE>>
  /\ messages[3].confidence = << >>
  /\ messages[4].role = "user"
  /\ inflight = 1

\* C9: no two messages of the list have the same id.
C9_UniqueIds ==
  \A i, j \in DOMAIN messages : i # j => messages[i].id # messages[j].id

\* C10: once the welcome message is installed, every step leaves the list
\* unchanged or appends exactly one message to it.
C10_AppendOnly ==
  [][mounted => (messages' = messages \/ IsAppend(messages, messages'))]_vars

\* two full cycles have been appended after the welcome message
C10_Witness ==
  /\ Len(messages) = 5
  /\ messages[1].id = "welcome"
  /\ inflight = 0

\* C11: a step that issues a call is an accepted send: it issues exactly one
\* call, carrying the trimmed pending input or the starter question, appends
\* the user message with that same text, empties the pending input, clears
\* the error and sets loading; no other step issues a call, so the calls are
\* as many as the user messages.
C11_AcceptedSend ==
  /\ [][calls' # calls
          => /\ IsAppend(calls, calls')
             /\ inflight' = inflight + 1
             /\ Last(calls').agent_id = "69819b9412326156554941e1"
             /\ \/ Last(calls').message = Trim(input)
                \/ \E i \in 1..4 : Last(calls').message = STARTER_QUESTIONS[i]
             /\ Last(calls').message # << >>
             /\ Trim(Last(calls').message) = Last(calls').message
             /\ IsAppend(messages, messages')
             /\ Last(messages').role = "user"
             /\ Last(messages').content = Last(calls').message
             /\ input' = << >>
             /\ error' = << >>
             /\ loading']_vars
  /\ [](Len(calls) = CountRole("user"))

\* a typed " a b " was sent as "a b" after a cycle that had left an error
C11_Witness ==
  /\ Len(calls) = 2
  /\ inflight = 1
  /\ calls[2].message = <<"a", " ", "b">>
  /\ messages[3].requiresEscalation = <<TRUE>>
  /\ messages[3].confidence = << >>
  /\ error = << >>
  /\ input = << >>

\* C12: on a success envelope the appended agent message copies the payload
\* field by field and error stays null; an agent message with a confidence
\* shows the nearest whole percentage of it (a half rounded up), the
\* escalation badge exactly when requiresEscalation is true, and one chip for
\* each follow-up question.
C12_SuccessMessage ==
  /\ [][\A result \in Envelopes :
          ( /\ inflight' < inflight
            /\ result.settled = "resolved"
            /\ result.success
            /\ result.response # None
            /\ result.response[1].status = "success"
            /\ result.response[1].result # None
            /\ Settle(result) )
          => LET payload == result.response[1].result[1]
                 m == Last(messages')
             IN  /\ IsAppend(messages, messages')
                 /\ m.role = "agent"
                 /\ m.content = payload.answer
                 /\ m.confidence = <<payload.confidence>>
                 /\ m.sources = <<payload.sources>>
                 /\ m.followUpQuestions = <<payload.follow_up_questions>>
                 /\ m.requiresEscalation = <<payload.requires_escalation>>
                 /\ error' = << >>
       ]_vars
  /\ [](\A i \in DOMAIN messages :
          (messages[i].role = "agent" /\ messages[i].confidence # << >>)
          => LET shown == ChatMessage(messages[i])
                 c == messages[i].confidence[1]
             IN  /\ \E p \in 0..100 :
                       /\ c - 5 < 10 * p
                       /\ 10 * p <= c + 5
                       /\ shown.confidenceBadge = << <<ToString(p), "% confident">> >>
                 /\ shown.escalationBadge
                      <=> messages[i].requiresEscalation = <<TRUE>>
                 /\ shown.chips = messages[i].followUpQuestions[1]
                 /\ (c = 920 => shown.confidenceBadge = << <<"92", "% confident">> >>))

\* the scenario of the specification: confidence 0.92, one follow-up, no
\* escalation
C12_Witness ==
  /\ Len(messages) >= 3
  /\ messages[3].confidence = <<920>>
  /\ error = << >>
  /\ ChatMessage(messages[3]).confidenceBadge = << <<"92", "% confident">> >>
  /\ ~ChatMessage(messages[3]).escalationBadge
  /\ Len(ChatMessage(messages[3]).chips) = 1

\* C13: the starter-question row is shown only while the list holds no user
\* message and no call is in flight; after the first accepted send it is not
\* shown in any state, settled or not, failed or not.
C13_StarterRowOneTime ==
  /\ ChipsShown =>
       (CountRole("user") = 0 /\ ~loading /\ inflight = 0 /\ mounted)
  /\ Len(calls) > 0 => ~ChipsShown

\* the first cycle has failed, its result is rendered, and the row is gone
C13_Witness ==
  /\ Len(calls) = 1
  /\ inflight = 0
  /\ error # << >>
  /\ rendered = View(messages, input, loading, error)
  /\ ~ChipsShown

\* C14: every follow-up chip shown under an agent message is selectable:
\* while the page is idle, a click on it sends its question as
\* sendMessage(question) would (while the model's cap on sends is not
\* reached).
C14_FollowUpChipSends ==
  \A i \in DOMAIN rendered.messages :
    \A j \in DOMAIN ChatMessage(rendered.messages[i]).chips :
      ( /\ mounted
        /\ inflight = 0
        /\ rendered = View(messages, input, loading, error)
        /\ Len(calls) < MaxSends )
      => ENABLED ( /\ FollowUpClick(i, j)
                   /\ IsAppend(calls, calls')
                   /\ Last(calls').message
                        = ChatMessage(rendered.messages[i]).chips[j] )

IsWelcome(m) ==
  /\ m.id = "welcome"
  /\ m.role = "agent"
  /\ m.content =
       <<"Hello! I'm your customer support assistant. How can I help you today?">>
  /\ m.confidence = <<1000>>
  /\ m.followUpQuestions =
       << << <<"How can I track my order?">>,
             <<"What are your business hours?">>,
             <<"Tell me about your services">>,
             <<"How do I reset my password?">> >> >>
  /\ m.requiresEscalation = <<FALSE>>

\* C15: the mount effect leaves a list of exactly the welcome message (agent,
\* fixed greeting, confidence 1.0, the starter questions as follow-ups,
\* escalation false) with an empty input, loading false and no error; in
\* every later state the first message is still that message, unchanged, and
\* no other message is a welcome message.
C15_WelcomeFirst ==
  /\ [][(~mounted /\ mounted')
          => /\ Len(messages') = 1
             /\ IsWelcome(messages'[1])
             /\ input' = << >>
             /\ ~loading'
             /\ error' = << >>]_vars
  /\ [][mounted => messages'[1] = messages[1]]_vars
  /\ [](mounted =>
          /\ IsWelcome(messages[1])
          /\ \A i \in 2..Len(messages) :
               messages[i].id # "welcome" /\ messages[i] # messages[1])

\* two cycles later the welcome message is still the first one
C15_Witness ==
  /\ Len(messages) = 5
  /\ IsWelcome(messages[1])
  /\ messages[1].timestamp < now

\* C16: after the welcome message the roles alternate user, agent, user, ...:
\* every later agent message directly follows the user message of its own
\* send, no two user messages are adjacent, and with no call in flight the
\* list ends with an agent message.
C16_RolesAlternate ==
  mounted =>
    /\ \A i \in 2..Len(messages) :
         /\ messages[i].role = IF i % 2 = 0 THEN "user" ELSE "agent"
         /\ messages[i].role = "user" => messages[i - 1].role = "agent"
         /\ messages[i].role = "agent" =>
              /\ messages[i - 1].role = "user"
              /\ (i - 1) \div 2 \in DOMAIN calls
              /\ messages[i - 1].content = calls[(i - 1) \div 2].message
    /\ inflight = 0 => Last(messages).role = "agent"

C16_Witness ==
  /\ Len(messages) = 5
  /\ messages[2].role = "user"
  /\ messages[3].role = "agent"
  /\ messages[4].role = "user"
  /\ messages[5].role = "agent"

\* C17: while a call is in flight error is null, in the state and in what is
\* rendered: the banner never shows together with the typing indicator, and
\* the error of a failed cycle is gone once the next send is accepted.
C17_NoErrorWhileBusy ==
  /\ loading => error = << >>
  /\ inflight > 0 => error = << >>
  /\ rendered.loading => rendered.error = << >>

\* a second call is in flight after a first cycle that had set the error
C17_Witness ==
  /\ loading
  /\ Len(calls) = 2
  /\ messages[3].content \in {ApologyText, TroubleConnectingText}
  /\ error = << >>
  /\ rendered.error = << >>

\* the message carries one of the two fixed failure texts
HasFailureText(m) ==
  /\ m.role = "agent"
  /\ m.content \in
       { <<"I'm sorry, I encountered an error. Please try again or contact support if the issue persists.">>,
         <<"I'm having trouble connecting right now. Please check your internet connection and try again.">> }

IsSynthetic(m) ==
  /\ HasFailureText(m)
  /\ m.requiresEscalation = <<TRUE>>
  /\ m.confidence = << >>

\* C18: with no call in flight, error is set exactly when the last cycle
\* ended in the else block or the catch block, and then the last message is
\* the synthetic agent message (escalation true, no confidence); a step that
\* sets error appends that message, and a success settlement leaves error
\* null.
C18_ErrorIffFailedCycle ==
  /\ [](inflight = 0 =>
          /\ error # << >>
               <=> (Len(calls) > 0 /\ HasFailureText(Last(messages)))
          /\ error # << >> => IsSynthetic(Last(messages)))
  /\ [][(error' # error /\ error' # << >>)
          => (IsAppend(messages, messages') /\ IsSynthetic(Last(messages')))]_vars
  /\ [][(inflight' < inflight /\ ~HasFailureText(Last(messages')))
          => error' = << >>]_vars

\* a failed first cycle, then a successful second one: error is null again
\* and the failure message is still in the list
C18_Witness ==
  /\ Len(messages) = 5
  /\ inflight = 0
  /\ IsSynthetic(messages[3])
  /\ messages[5].confidence # << >>
  /\ error = << >>
====
